---------------------------- MODULE Spec2Model ----------------------------
(***************************************************************************)
(* A model of freqgen's image compositor (src/freqgen/image.py) and of the *)
(* random draws of the /predict handler (src/freqgen/api.py, model.py).    *)
(*                                                                         *)
(* Text is a sequence of one-character strings.  Pixel quantities are      *)
(* integers; a glyph advance (font.getlength, a float) is kept in HALF     *)
(* pixels so that the rounding of the source (int(), bbox) is visible.     *)
(***************************************************************************)
EXTENDS Integers, Sequences, FiniteSets, TLC

VARIABLES
    \* draw_text_with_tracking (image.py 16-28)
    tt_pc, tt_position, tt_text, tt_tracking, tt_x, tt_k, tt_canvas, tt_ret,
    \* draw_pill (image.py 105-159): its arguments, what it drew, what it returned
    dp_pc, dp_text, dp_position, dp_relative_to, dp_relative_to_text,
    dp_relative_to_font, dp_gap, dp_offset, dp_padding_x, dp_pill_height,
    dp_canvas, dp_ret,
    \* draw_wrapped_text (image.py 31-102): its arguments, `lines`, the value of
    \* `lines` when the wrapping loop ended, and what it drew
    wt_pc, wt_text, wt_position, wt_max_width, wt_line_spacing, wt_tracking,
    wt_max_lines, wt_lines, wt_wrapped, wt_canvas,
    \* generate_image (image.py 179-388): its arguments, the size of the opened
    \* background, its locals, what it drew, the pills it drew, what it returned
    \* or raised
    gi_pc, gi_station, gi_station_name, gi_verbatims, gi_tags, gi_artists,
    gi_width, gi_theme, gi_canvas, gi_all_pills, gi_lines, gi_current_line,
    gi_current_line_width, gi_i, gi_line_num, gi_k, gi_x, gi_drawn, gi_ret, gi_error,
    \* the state the process's generator was in when generate_image was called
    gi_rng_at_call,
    \* the state of the generator behind random.seed, random.shuffle,
    \* random.choice and random.sample: one per process
    rng,
    \* the worker threads that run predict (api.py 65-100): where each one is,
    \* its request, the parts of the station name drawn, the pool and the result
    \* of the artists' sample, its all_pills before the shuffle and now, the
    \* index of its shuffle
    th_pc, th_request, th_name, th_pool, th_artists, th_input, th_pills, th_i,
    \* the number of requests that have reached the server
    requests,
    \* the number of outputs of the generator drawn by coin_flip
    flips,
    \* the thread the interpreter runs (0: none yet) and the number of times it
    \* has switched threads
    running, switches,
    \* the pairs (pre-shuffle sequence, shuffled order) of the finished calls
    seen

ttVars == <<tt_pc, tt_position, tt_text, tt_tracking, tt_x, tt_k, tt_canvas, tt_ret>>
dpVars == <<dp_pc, dp_text, dp_position, dp_relative_to, dp_relative_to_text,
            dp_relative_to_font, dp_gap, dp_offset, dp_padding_x, dp_pill_height,
            dp_canvas, dp_ret>>
wtVars == <<wt_pc, wt_text, wt_position, wt_max_width, wt_line_spacing, wt_tracking,
            wt_max_lines, wt_lines, wt_wrapped, wt_canvas>>
giVars == <<gi_pc, gi_station, gi_station_name, gi_verbatims, gi_tags, gi_artists,
            gi_width, gi_theme, gi_canvas, gi_all_pills, gi_lines, gi_current_line,
            gi_current_line_width, gi_i, gi_line_num, gi_k, gi_x, gi_drawn, gi_ret, gi_error,
            gi_rng_at_call>>
thVars == <<th_pc, th_request, th_name, th_pool, th_artists, th_input, th_pills,
           th_i, requests, flips, running, switches, seen>>
vars == <<ttVars, dpVars, wtVars, giVars, rng, thVars>>

-----------------------------------------------------------------------------
(* Bounds of the model-checked input space.                                *)

\* longest text handed to draw_text_with_tracking
MaxTrackLen == 3

\* longest text handed to draw_wrapped_text
MaxWrapLen == 6

\* longest list of verbatims, of tags and of artists handed to generate_image
MaxLabels == 2

\* number of worker threads of the server
NThreads == 2

\* number of requests that reach the server
MaxRequests == 2

\* number of calls of coin_flip
MaxFlips == 1

\* number of times the interpreter switches from one thread to another
MaxSwitches == 2

-----------------------------------------------------------------------------
(* Python values *)

\* Python's None, and an optional value that is present
None == <<>>
Some(v) == <<v>>

\* Python's int() of the float n/2: truncation toward zero
IntOfHalf(n) == IF n >= 0 THEN n \div 2 ELSE -((-n) \div 2)

\* round-half-up of the float n/2 (n >= 0)
RoundHalfUp(n) == (n + 1) \div 2

RECURSIVE SeqsUpTo(_, _)
\* all sequences over S of length at most n
SeqsUpTo(S, n) ==
    IF n = 0 THEN {<<>>}
    ELSE LET shorter == SeqsUpTo(S, n - 1)
         IN shorter \cup {Append(s, c) : s \in {q \in shorter : Len(q) = n - 1}, c \in S}

-----------------------------------------------------------------------------
(* The glyph metrics provider: PIL's FreeTypeFont, an external collaborator *)
(* of image.py.  A stub font: every character has a fixed advance, given in *)
(* half pixels (10.5 px = 21).                                              *)

HalfAdvance(ch) ==
    CASE ch = "i" -> 21
      [] ch = "m" -> 40
      [] ch = " " -> 10
      [] ch = "." -> 11
      [] OTHER -> 30

RECURSIVE HalfLength(_)
\* font.getlength(text), in half pixels
HalfLength(text) ==
    IF text = <<>> THEN 0 ELSE HalfAdvance(Head(text)) + HalfLength(Tail(text))

\* font.getbbox(text)[2] - font.getbbox(text)[0]: whole pixels
BBoxWidth(text) == RoundHalfUp(HalfLength(text))

\* font.getbbox(text)[0]: the left bearing of the stub font
BBoxLeft(text) == 0

\* font.getbbox(text)[3] - font.getbbox(text)[1]
BBoxHeight(text) == IF text = <<>> THEN 0 ELSE 41

\* font.getmetrics()
FontMetrics == [ascent |-> 40, descent |-> 11]

\* font.size of the font handed to draw_wrapped_text
FontSize == 127

\* a draw.text call: x2 is the x coordinate in half pixels (it can be a float)
TextOp(x2, y, text) == [op |-> "text", x2 |-> x2, y |-> y, text |-> text]

-----------------------------------------------------------------------------
(* draw_text_with_tracking, image.py 16-28 *)

\* int(font.getlength(char) + tracking), image.py 28
TrackedAdvance(char, tracking) == IntOfHalf(HalfAdvance(char) + 2 * tracking)

TrackTexts == SeqsUpTo({"i", "m", " ", "."}, MaxTrackLen)

\* no call of draw_text_with_tracking is under way
TrackIdle ==
    /\ tt_pc = "idle" /\ tt_position = <<0, 0>> /\ tt_text = <<>> /\ tt_tracking = 0
    /\ tt_x = 0 /\ tt_k = 0 /\ tt_canvas = <<>> /\ tt_ret = None

InitTrackCall ==
    /\ tt_pc = "loop"
    /\ tt_position \in {<<66, 311>>, <<0, 0>>}
    /\ tt_text \in TrackTexts
    /\ tt_tracking \in {-8, -7, 0, 3}
    /\ tt_x = tt_position[1]
    /\ tt_k = 0
    /\ tt_canvas = <<>>
    /\ tt_ret = None

\* one iteration of `for char in text`: draw the character, advance x
TrackChar ==
    /\ tt_pc = "loop"
    /\ tt_k < Len(tt_text)
    /\ LET char == tt_text[tt_k + 1]
       IN /\ tt_canvas' = Append(tt_canvas, [x |-> tt_x, y |-> tt_position[2], char |-> char])
          /\ tt_x' = tt_x + TrackedAdvance(char, tt_tracking)
    /\ tt_k' = tt_k + 1
    /\ UNCHANGED <<tt_pc, tt_position, tt_text, tt_tracking, tt_ret>>
    /\ UNCHANGED <<dpVars, wtVars, giVars, rng, thVars>>

\* the loop is exhausted: the function falls off its end and returns None
TrackReturn ==
    /\ tt_pc = "loop"
    /\ tt_k = Len(tt_text)
    /\ tt_pc' = "done"
    /\ tt_ret' = None
    /\ UNCHANGED <<tt_position, tt_text, tt_tracking, tt_x, tt_k, tt_canvas>>
    /\ UNCHANGED <<dpVars, wtVars, giVars, rng, thVars>>

-----------------------------------------------------------------------------
(* draw_pill, image.py 105-159 *)

\* Python truthiness of an optional string: None and "" are both false
TruthyText(v) == v # None /\ v[1] # <<>>

\* Python truthiness of an optional tuple or object: only None is false
Truthy(v) == v # None

\* a plausible slip: the anchor rules tried before the explicit position
PillOrigin_AnchorFirst(position, relative_to, relative_to_text, relative_to_font, gap, pill_height) ==
    IF Truthy(relative_to) /\ TruthyText(relative_to_text) /\ Truthy(relative_to_font)
    THEN <<relative_to[1][1] + BBoxWidth(relative_to_text[1]) + gap,
           relative_to[1][2] + (BBoxHeight(relative_to_text[1]) - pill_height) \div 2>>
    ELSE IF Truthy(relative_to) THEN relative_to[1]
    ELSE IF position # None THEN position[1]
    ELSE <<0, 0>>

\* the pill's top-left before the offset, image.py 126-138
PillOrigin(position, relative_to, relative_to_text, relative_to_font, gap, pill_height) ==
    IF position # None THEN position[1]
    ELSE IF Truthy(relative_to) /\ TruthyText(relative_to_text) /\ Truthy(relative_to_font)
    THEN <<relative_to[1][1] + BBoxWidth(relative_to_text[1]) + gap,
           relative_to[1][2] + (BBoxHeight(relative_to_text[1]) - pill_height) \div 2>>
    ELSE IF Truthy(relative_to) THEN relative_to[1]
    ELSE <<0, 0>>

\* draw_pill: the rounded rectangle and the text it draws, and the box it returns
DrawPill(text, position, relative_to, relative_to_text, relative_to_font, gap, offset, padding_x, pill_height) ==
    LET text_width == BBoxWidth(text)
        pill_width == text_width + 2 * padding_x
        origin == PillOrigin(position, relative_to, relative_to_text,
                             relative_to_font, gap, pill_height)
        pill_x == origin[1] + offset[1]
        pill_y == origin[2] + offset[2]
        text_x == pill_x + (pill_width - text_width) \div 2 - BBoxLeft(text)
        baseline_y == pill_y + pill_height \div 2 + FontMetrics.descent \div 2 + 7
        text_y == baseline_y - FontMetrics.ascent
        box == <<pill_x, pill_y, pill_x + pill_width, pill_y + pill_height>>
    IN [canvas |-> << [op |-> "rounded_rectangle", box |-> box, radius |-> pill_height \div 2],
                      TextOp(2 * text_x, text_y, text) >>,
        ret |-> box]

\* no call of draw_pill is under way
PillIdle ==
    /\ dp_pc = "idle" /\ dp_text = <<>> /\ dp_position = None /\ dp_relative_to = None
    /\ dp_relative_to_text = None /\ dp_relative_to_font = None /\ dp_gap = 0
    /\ dp_offset = <<0, 0>> /\ dp_padding_x = 40 /\ dp_pill_height = 72
    /\ dp_canvas = <<>> /\ dp_ret = None

InitPillCall ==
    /\ dp_pc = "call"
    /\ dp_text \in {<<>>, <<"i">>, <<"m", "i", "m">>}
    /\ dp_position \in {None, Some(<<10, 20>>)}
    /\ dp_relative_to \in {None, Some(<<66, 460>>)}
    /\ dp_relative_to_text \in {None, Some(<<>>), Some(<<"m", "i">>)}
    /\ dp_relative_to_font \in {None, Some("font")}
    /\ dp_gap \in {0, 24}
    /\ dp_offset \in {<<0, 0>>, <<0, 32>>, <<-3, 5>>}
    /\ dp_padding_x \in {25, 40}
    /\ dp_pill_height \in {72, 78}
    /\ dp_canvas = <<>>
    /\ dp_ret = None

\* the call of draw_pill on the drawn arguments
DrawPillCall ==
    /\ dp_pc = "call"
    /\ LET r == DrawPill(dp_text, dp_position, dp_relative_to, dp_relative_to_text,
                         dp_relative_to_font, dp_gap, dp_offset, dp_padding_x,
                         dp_pill_height)
       IN /\ dp_canvas' = r.canvas
          /\ dp_ret' = Some(r.ret)
    /\ dp_pc' = "done"
    /\ UNCHANGED <<dp_text, dp_position, dp_relative_to, dp_relative_to_text,
                   dp_relative_to_font, dp_gap, dp_offset, dp_padding_x, dp_pill_height>>
    /\ UNCHANGED <<ttVars, wtVars, giVars, rng, thVars>>

-----------------------------------------------------------------------------
(* draw_wrapped_text, image.py 31-102 *)

Ellipsis == <<".", ".", ".">>

\* an element of `lines`: a str, or the tuple (text, "...") of a cut line
Plain(text) == [kind |-> "str", text |-> text, ellipsis |-> <<>>]
Truncated(text) == [kind |-> "tuple", text |-> text, ellipsis |-> Ellipsis]

RECURSIVE SplitFrom(_, _, _)
\* text.split(): the maximal runs of non-space characters, in order
SplitFrom(text, words, word) ==
    IF text = <<>> THEN (IF word = <<>> THEN words ELSE Append(words, word))
    ELSE IF Head(text) = " "
         THEN SplitFrom(Tail(text), IF word = <<>> THEN words ELSE Append(words, word), <<>>)
         ELSE SplitFrom(Tail(text), words, Append(word, Head(text)))

Split(text) == SplitFrom(text, <<>>, <<>>)

RECURSIVE Join(_)
\* " ".join(words)
Join(words) ==
    IF words = <<>> THEN <<>>
    ELSE IF Len(words) = 1 THEN words[1]
    ELSE words[1] \o <<" ">> \o Join(Tail(words))

\* test_width <= max_width, image.py 48-51
WordFits(current_line, word, max_width) ==
    BBoxWidth(Join(Append(current_line, word))) <= max_width

RECURSIVE WrapLoop(_, _, _, _)
\* the loop over the words and the flush after it, image.py 47-61
WrapLoop(words, lines, current_line, max_width) ==
    IF words = <<>>
    THEN (IF current_line # <<>> THEN Append(lines, Join(current_line)) ELSE lines)
    ELSE LET word == Head(words)
         IN IF WordFits(current_line, word, max_width)
            THEN WrapLoop(Tail(words), lines, Append(current_line, word), max_width)
            ELSE IF current_line # <<>>
                 THEN WrapLoop(Tail(words), Append(lines, Join(current_line)), <<word>>, max_width)
                 ELSE WrapLoop(Tail(words), Append(lines, word), current_line, max_width)

RECURSIVE Shrink_BelowThree(_, _)
\* a plausible slip: the cutting goes on down to 2 characters
Shrink_BelowThree(last_line, max_width) ==
    IF BBoxWidth(last_line \o Ellipsis) <= max_width \/ Len(last_line) <= 2
    THEN last_line
    ELSE Shrink_BelowThree(SubSeq(last_line, 1, Len(last_line) - 1), max_width)

RECURSIVE Shrink(_, _)
\* the `while True` loop that cuts the last line, image.py 68-77
Shrink(last_line, max_width) ==
    IF BBoxWidth(last_line \o Ellipsis) <= max_width \/ Len(last_line) <= 3
    THEN last_line
    ELSE Shrink(SubSeq(last_line, 1, Len(last_line) - 1), max_width)

\* a plausible slip: one line too many kept (lines[:max_lines + 1])
CapLines_OffByOne(lines, max_width, max_lines) ==
    IF max_lines # None /\ max_lines[1] # 0 /\ Len(lines) > max_lines[1]
    THEN LET n == IF Len(lines) > max_lines[1] + 1 THEN max_lines[1] + 1 ELSE Len(lines)
             kept == SubSeq(lines, 1, n)
         IN [kept EXCEPT ![n] = Truncated(Shrink(kept[n].text, max_width))]
    ELSE lines

\* the cut to max_lines lines, image.py 63-77
CapLines(lines, max_width, max_lines) ==
    IF max_lines # None /\ max_lines[1] # 0 /\ Len(lines) > max_lines[1]
    THEN LET kept == SubSeq(lines, 1, max_lines[1])
         IN [kept EXCEPT ![max_lines[1]] = Truncated(Shrink(kept[max_lines[1]].text, max_width))]
    ELSE lines

RECURSIVE TrackedDraws(_, _, _, _)
\* the draw.text calls of draw_text_with_tracking((x, y), text, tracking)
TrackedDraws(x, y, text, tracking) ==
    IF text = <<>> THEN <<>>
    ELSE <<TextOp(2 * x, y, <<Head(text)>>)>>
         \o TrackedDraws(x + TrackedAdvance(Head(text), tracking), y, Tail(text), tracking)

RECURSIVE HalfTracked(_, _)
\* sum(font.getlength(char) + tracking for char in text), in half pixels
HalfTracked(text, tracking) ==
    IF text = <<>> THEN 0
    ELSE HalfAdvance(Head(text)) + 2 * tracking + HalfTracked(Tail(text), tracking)

\* text_width of the ellipsis position, image.py 89-94, in half pixels
EllipsisOffset(text_part, tracking) ==
    IF text_part # <<>>
    THEN HalfTracked(SubSeq(text_part, 1, Len(text_part) - 1), tracking)
         + HalfAdvance(text_part[Len(text_part)])
    ELSE 0

\* what is drawn for line i (from 0), image.py 80-102
RenderLine(i, line, position, line_spacing, tracking) ==
    LET x == position[1]
        y == position[2] + i * (FontSize + line_spacing)
    IN IF line.kind = "tuple"
       THEN IF tracking # None
            THEN TrackedDraws(x, y, line.text, tracking[1])
                 \o <<TextOp(2 * x + EllipsisOffset(line.text, tracking[1]), y, line.ellipsis)>>
            ELSE <<TextOp(2 * x, y, line.text \o line.ellipsis)>>
       ELSE IF tracking # None
            THEN TrackedDraws(x, y, line.text, tracking[1])
            ELSE <<TextOp(2 * x, y, line.text)>>

RECURSIVE RenderLines(_, _, _, _, _)
\* the drawing loop over lines[i..], image.py 79-102
RenderLines(i, lines, position, line_spacing, tracking) ==
    IF i >= Len(lines) THEN <<>>
    ELSE RenderLine(i, lines[i + 1], position, line_spacing, tracking)
         \o RenderLines(i + 1, lines, position, line_spacing, tracking)

\* `lines` after the wrapping loop, each a str
WrappedLines(text, max_width) ==
    LET ls == WrapLoop(Split(text), <<>>, <<>>, max_width)
    IN [k \in 1..Len(ls) |-> Plain(ls[k])]

\* no call of draw_wrapped_text is under way
WrapIdle ==
    /\ wt_pc = "idle" /\ wt_text = <<>> /\ wt_position = <<0, 0>> /\ wt_max_width = 0
    /\ wt_line_spacing = 8 /\ wt_tracking = None /\ wt_max_lines = None
    /\ wt_lines = <<>> /\ wt_wrapped = <<>> /\ wt_canvas = <<>>

InitWrapCall ==
    /\ wt_pc = "call"
    /\ wt_text \in SeqsUpTo({"i", "m", " "}, MaxWrapLen)
    /\ wt_position = <<66, 800>>
    /\ wt_max_width \in {25, 90}
    /\ wt_line_spacing = 8
    /\ wt_tracking \in {None, Some(-7), Some(3)}
    /\ wt_max_lines \in {None, Some(0), Some(1), Some(2)}
    /\ wt_lines = <<>>
    /\ wt_wrapped = <<>>
    /\ wt_canvas = <<>>

\* the wrapping of the words into lines, image.py 43-61
WrapSplit ==
    /\ wt_pc = "call"
    /\ wt_lines' = WrappedLines(wt_text, wt_max_width)
    /\ wt_wrapped' = wt_lines'
    /\ wt_pc' = "wrapped"
    /\ UNCHANGED <<wt_text, wt_position, wt_max_width, wt_line_spacing, wt_tracking,
                   wt_max_lines, wt_canvas>>
    /\ UNCHANGED <<ttVars, dpVars, giVars, rng, thVars>>

\* the cut to max_lines, image.py 63-77
WrapCap ==
    /\ wt_pc = "wrapped"
    /\ wt_lines' = CapLines(wt_lines, wt_max_width, wt_max_lines)
    /\ wt_pc' = "capped"
    /\ UNCHANGED <<wt_text, wt_position, wt_max_width, wt_line_spacing, wt_tracking,
                   wt_max_lines, wt_wrapped, wt_canvas>>
    /\ UNCHANGED <<ttVars, dpVars, giVars, rng, thVars>>

\* the drawing of the lines, image.py 79-102
WrapRender ==
    /\ wt_pc = "capped"
    /\ wt_canvas' = RenderLines(0, wt_lines, wt_position, wt_line_spacing, wt_tracking)
    /\ wt_pc' = "done"
    /\ UNCHANGED <<wt_text, wt_position, wt_max_width, wt_line_spacing, wt_tracking,
                   wt_max_lines, wt_lines, wt_wrapped>>
    /\ UNCHANGED <<ttVars, dpVars, giVars, rng, thVars>>

-----------------------------------------------------------------------------
(* The process-wide generator of Python's random module, a Mersenne        *)
(* Twister.  Its state is kept as <<seed, pos>>: the generator as           *)
(* random.seed(seed) left it, after pos 32-bit outputs.  The outputs are    *)
(* those CPython produces, tabulated (their top 4 bits, enough for          *)
(* getrandbits(k) with k <= 4, that is for _randbelow(n) with n <= 15).     *)

\* the top 4 bits of the first 32-bit outputs after random.seed(seed)
Outputs(seed) ==
    CASE seed = 420 ->
       << 0, 10, 12, 5, 4, 6, 1, 12, 10, 10, 10, 1, 0, 8, 5, 7, 15, 10, 0,
          12, 12, 9, 2, 8, 5, 15, 6, 4, 1, 14, 14, 5, 4, 13, 2, 10, 1, 15, 4,
          7, 2, 7, 10, 1, 3, 7, 0, 6 >>
      [] seed = 0 ->
       << 13, 6, 12, 14, 6, 0, 4, 15, 8, 7, 6, 14, 12, 13, 4, 15, 7, 5, 9,
          14, 14, 3, 8, 2, 4, 2, 12, 1, 9, 12, 4, 15, 14, 8, 15, 11, 12, 9,
          14, 2, 4, 1, 11, 1, 14, 13, 10, 5 >>
      [] seed = 12 ->
       << 7, 4, 10, 8, 10, 5, 2, 6, 0, 15, 5, 7, 4, 10, 12, 7, 11, 13, 9, 3,
          8, 0, 10, 9, 2, 15, 7, 5, 2, 5, 14, 3, 0, 9, 13, 3, 1, 8, 10, 13,
          5, 10, 6, 12, 13, 1, 0, 14 >>
      [] seed = 17 ->
       << 8, 6, 12, 4, 15, 5, 4, 2, 12, 11, 11, 8, 10, 4, 1, 14, 0, 3, 6, 13,
          11, 6, 4, 13, 8, 12, 5, 10, 13, 10, 15, 11, 6, 2, 15, 8, 0, 2, 13,
          12, 14, 3, 2, 14, 11, 8, 8, 12 >>

\* the state random.seed(a) leaves
SeedState(a) == <<a, 0>>

\* the outputs of the generator in state s are tabulated
Tabulated(s) == s[2] < Len(Outputs(s[1]))

\* the state after one 32-bit output
RngNext(s) == <<s[1], s[2] + 1>>

\* n.bit_length()
BitLength(n) == IF n = 0 THEN 0 ELSE IF n < 2 THEN 1 ELSE IF n < 4 THEN 2 ELSE IF n < 8 THEN 3 ELSE 4

\* random.getrandbits(k) in state s, 1 <= k <= 4: the top k bits of one output
GetRandBits(s, k) == Outputs(s[1])[s[2] + 1] \div (2 ^ (4 - k))

RECURSIVE RandBelow(_, _)
\* random._randbelow(n) in state s, n >= 1: getrandbits(n.bit_length()) is
\* drawn again until it is below n; the value and the state it leaves
RandBelow(s, n) ==
    LET r == GetRandBits(s, BitLength(n))
    IN IF r < n THEN [r |-> r, rng |-> RngNext(s)] ELSE RandBelow(RngNext(s), n)

\* x with the elements at i and j (counted from 0) exchanged
Swap(x, i, j) == [x EXCEPT ![i + 1] = x[j + 1], ![j + 1] = x[i + 1]]

RECURSIVE ShuffleFrom(_, _, _)
\* random.shuffle(x) from index i down to 1: for i in reversed(range(1, len(x))):
\* j = randbelow(i + 1); x[i], x[j] = x[j], x[i]
ShuffleFrom(x, i, s) ==
    IF i < 1 THEN [x |-> x, rng |-> s]
    ELSE LET d == RandBelow(s, i + 1)
         IN ShuffleFrom(Swap(x, i, d.r), i - 1, d.rng)

\* random.shuffle(x) in state s: the shuffled list and the state it leaves
Shuffle(x, s) == ShuffleFrom(x, Len(x) - 1, s)

-----------------------------------------------------------------------------
(* generate_image, image.py 179-388 *)

pill_start_x == 66
pill_start_y == 1300
pill_gap_y == 24
pill_gap_x == 24
pill_height == 78
max_lines == 4

\* max_pill_right = width - 66, image.py 303
MaxPillRight(width) == width - 66

WHITE == "WHITE"
BLACK == "BLACK"
GREY == "GREY"

\* station_to_frequency, image.py 167-176: no case matches, None is returned
station_to_frequency(station) ==
    CASE station = "slower" -> Some(<<"9", "7", ".", "3", " ", "F", "M">>)
      [] station = "slow" -> Some(<<"1", "0", "1", ".", "1", " ", "F", "M">>)
      [] station = "fast" -> Some(<<"1", "0", "5", ".", "6", " ", "F", "M">>)
      [] station = "faster" -> Some(<<"1", "0", "8", ".", "9", " ", "F", "M">>)
      [] OTHER -> None

\* the names the match statement binds, image.py 202-212; no case matches:
\* none of them is bound
Theme(station) ==
    CASE station \in {"slower", "slow"} ->
           [bound |-> TRUE, scene_name |-> <<"L", "'", "A", "t", "r", "i", "u", "m">>,
            scene_genre |-> <<"H", "o", "u", "s", "e", " ", "s", "o", "l", "a", "i", "r", "e">>,
            bg_image_path |-> "house.png", pill_bg_color |-> "ORANGE"]
      [] station \in {"faster", "fast"} ->
           [bound |-> TRUE, scene_name |-> <<"L", "e", " ", "R", "e", "f", "u", "g", "e">>,
            scene_genre |-> <<"T", "e", "c", "h", "n", "o", " ", "s", "o", "m", "b", "r", "e">>,
            bg_image_path |-> "techno.png", pill_bg_color |-> "PURPLE"]
      [] OTHER ->
           [bound |-> FALSE, scene_name |-> <<>>, scene_genre |-> <<>>,
            bg_image_path |-> "", pill_bg_color |-> ""]

\* draw_wrapped_text as one call: everything it draws
DrawWrappedText(text, position, max_width, line_spacing, tracking, wrap_max_lines) ==
    RenderLines(0, CapLines(WrappedLines(text, max_width), max_width, wrap_max_lines),
                position, line_spacing, tracking)

\* a plausible slip: the title left out
BaseElements_NoTitle(station, station_name, theme, width) ==
    LET scene_genre_text == theme.scene_genre \o <<" ", "d", "a", "n", "s">>
    IN << [elem |-> "frequency",
           ops |-> TrackedDraws(66, 311, station_to_frequency(station)[1], -8)],
          [elem |-> "scene_genre",
           ops |-> <<TextOp(2 * 66, 460, scene_genre_text)>>],
          [elem |-> "scene_name",
           ops |-> DrawPill(theme.scene_name, None, Some(<<66, 460>>),
                            Some(scene_genre_text), Some("scene_genre_font"),
                            24, <<0, 32>>, 25, 72).canvas],
          [elem |-> "date", ops |-> <<>>] >>

\* elements 1 to 5, image.py 232-278
BaseElements(station, station_name, theme, width) ==
    LET scene_genre_text == theme.scene_genre \o <<" ", "d", "a", "n", "s">>
        scene_genre_position == <<66, 460>>
        frequency == station_to_frequency(station)
    IN << [elem |-> "frequency",
           ops |-> TrackedDraws(66, 311, frequency[1], -8)],
          [elem |-> "scene_genre",
           ops |-> <<TextOp(2 * 66, 460, scene_genre_text)>>],
          [elem |-> "scene_name",
           ops |-> DrawPill(theme.scene_name, None, Some(scene_genre_position),
                            Some(scene_genre_text), Some("scene_genre_font"),
                            24, <<0, 32>>, 25, 72).canvas],
          [elem |-> "date",
           ops |-> <<TextOp(2 * 66, 520, <<"l", "e", " ", "3", "1", " ", "j", "u", "i", "l", "l", "e", "t", " ", "à", " ", "L", "a", " ", "R", "o", "t", "o", "n", "d", "e">>)>>],
          [elem |-> "station_name",
           ops |-> DrawWrappedText(station_name, <<66, 800>>, width - 200, 8,
                                   Some(-7), Some(3))] >>

\* all_pills before the shuffle, image.py 280-292
AllPills(verbatims, tags, artists, pill_bg_color) ==
    [k \in 1..Len(verbatims) |-> <<"verbatim", verbatims[k], GREY>>]
    \o [k \in 1..Len(tags) |-> <<"tag", tags[k], WHITE>>]
    \o [k \in 1..Len(artists) |-> <<"artist", artists[k], pill_bg_color>>]

\* pill_width, image.py 314-317
PillWidth(pill_text) == BBoxWidth(pill_text) + 50

\* needed_width, image.py 320-322
NeededWidth(pill_width, current_line) ==
    IF current_line # <<>> THEN pill_width + pill_gap_x ELSE pill_width

\* a plausible slip: the start x not subtracted from the right edge
Fits_NoStart(current_line_width, needed_width, nlines, width) ==
    /\ current_line_width + needed_width <= MaxPillRight(width)
    /\ nlines < max_lines

\* the pill fits on the current line, image.py 324-327
Fits(current_line_width, needed_width, nlines, width) ==
    /\ current_line_width + needed_width <= MaxPillRight(width) - pill_start_x
    /\ nlines < max_lines

\* a plausible slip: a line started when max_lines lines are already closed
MayStartLine_OffByOne(nlines) == nlines <= max_lines

\* a new line may be started, image.py 338
MayStartLine(nlines) == nlines < max_lines

\* a plausible slip: the line that was closed is not emptied
PackStep_LineNotEmptied(lines, current_line, current_line_width, pill, width) ==
    LET pill_width == PillWidth(pill[2])
        needed_width == NeededWidth(pill_width, current_line)
    IN IF Fits(current_line_width, needed_width, Len(lines), width)
       THEN [lines |-> lines, current_line |-> Append(current_line, pill),
             current_line_width |-> current_line_width + needed_width, broke |-> FALSE]
       ELSE LET lines1 == IF current_line # <<>> THEN Append(lines, current_line) ELSE lines
            IN IF MayStartLine(Len(lines1))
               THEN [lines |-> lines1, current_line |-> Append(current_line, pill),
                     current_line_width |-> pill_width, broke |-> FALSE]
               ELSE [lines |-> lines1, current_line |-> current_line,
                     current_line_width |-> current_line_width, broke |-> TRUE]

\* one iteration of the packing loop on pill, image.py 312-343
PackStep(lines, current_line, current_line_width, pill, width) ==
    LET pill_width == PillWidth(pill[2])
        needed_width == NeededWidth(pill_width, current_line)
    IN IF Fits(current_line_width, needed_width, Len(lines), width)
       THEN [lines |-> lines, current_line |-> Append(current_line, pill),
             current_line_width |-> current_line_width + needed_width, broke |-> FALSE]
       ELSE LET closed == current_line # <<>>
                lines1 == IF closed THEN Append(lines, current_line) ELSE lines
                line1 == IF closed THEN <<>> ELSE current_line
                width1 == IF closed THEN 0 ELSE current_line_width
            IN IF MayStartLine(Len(lines1))
               THEN [lines |-> lines1, current_line |-> Append(line1, pill),
                     current_line_width |-> pill_width, broke |-> FALSE]
               ELSE [lines |-> lines1, current_line |-> line1,
                     current_line_width |-> width1, broke |-> TRUE]

RECURSIVE DisplayText_MinThree(_, _)
\* a plausible slip: the shortening goes on below 6 characters
DisplayText_MinThree(display_text, max_text_width) ==
    IF BBoxWidth(display_text) > max_text_width /\ Len(display_text) > 3
    THEN DisplayText_MinThree(SubSeq(display_text, 1, Len(display_text) - 4) \o Ellipsis,
                              max_text_width)
    ELSE display_text

RECURSIVE DisplayText(_, _)
\* the loop that shortens a pill's text, image.py 359-365
DisplayText(display_text, max_text_width) ==
    IF BBoxWidth(display_text) > max_text_width /\ Len(display_text) > 6
    THEN DisplayText(SubSeq(display_text, 1, Len(display_text) - 4) \o Ellipsis, max_text_width)
    ELSE display_text

\* a plausible slip: the cursor moved to the pill's edge without the gap
NextX_NoGap(bbox) == bbox[3]

\* x for the next pill, image.py 380
NextX(bbox) == bbox[3] + pill_gap_x

\* y of line line_num, image.py 351
LineY(line_num) == pill_start_y + line_num * (pill_height + pill_gap_y)

\* the label texts of the stub inputs: 2, 5 and 12 characters
ShortText == <<"i", "i">>
MediumText == <<"m", "m", "m", "m", "m">>
LongText == <<"m", "m", "m", "m", "m", "m", "m", "m", "m", "m", "m", "m">>

\* the titles of the stub inputs: one word, and four words of one line each
ShortName == <<"m", "i">>
LongName == MediumText \o <<" ">> \o MediumText \o <<" ">> \o MediumText \o <<" ">> \o MediumText

\* no call of generate_image is under way
GenIdle ==
    /\ gi_pc = "idle" /\ gi_station = "" /\ gi_station_name = <<>>
    /\ gi_verbatims = <<>> /\ gi_tags = <<>> /\ gi_artists = <<>>
    /\ gi_width = 0 /\ gi_theme = Theme("") /\ gi_canvas = <<>>
    /\ gi_all_pills = <<>> /\ gi_lines = <<>> /\ gi_current_line = <<>>
    /\ gi_current_line_width = 0 /\ gi_i = 0 /\ gi_line_num = 0 /\ gi_k = 0
    /\ gi_x = 0 /\ gi_drawn = <<>> /\ gi_ret = None /\ gi_error = None
    /\ gi_rng_at_call = SeedState(0)

\* the call generate_image(station, station_name, verbatims, tags, artists),
\* the width of the background it will open, and the state the generator is
\* in at the call
InitGenCall ==
    /\ gi_pc = "match"
    /\ gi_station \in {"slower", "slow", "fast", "faster", "medium"}
    /\ gi_station_name \in {ShortName, LongName}
    /\ gi_verbatims \in SeqsUpTo({ShortText, LongText}, MaxLabels)
    /\ gi_tags \in SeqsUpTo({ShortText, MediumText}, MaxLabels)
    /\ gi_artists \in SeqsUpTo({ShortText, MediumText}, MaxLabels)
    /\ gi_width \in {250, 300, 400}
    /\ gi_theme = Theme("")
    /\ gi_canvas = <<>>
    /\ gi_all_pills = <<>> /\ gi_lines = <<>> /\ gi_current_line = <<>>
    /\ gi_current_line_width = 0 /\ gi_i = 0 /\ gi_line_num = 0 /\ gi_k = 0
    /\ gi_x = 0 /\ gi_drawn = <<>> /\ gi_ret = None /\ gi_error = None
    /\ rng \in {SeedState(0), RngNext(RngNext(RngNext(SeedState(17))))}
    /\ gi_rng_at_call = rng

\* the match statement and Image.open(bg_image_path), image.py 202-216: when
\* no case matched, bg_image_path is unbound and reading it raises
OpenBackground ==
    /\ gi_pc = "match"
    /\ gi_theme' = Theme(gi_station)
    /\ IF gi_theme'.bound
       THEN gi_pc' = "base" /\ gi_error' = gi_error
       ELSE gi_pc' = "raised" /\ gi_error' = Some("UnboundLocalError")
    /\ UNCHANGED <<gi_rng_at_call, gi_station, gi_station_name, gi_verbatims, gi_tags, gi_artists,
                   gi_width, gi_canvas, gi_all_pills, gi_lines, gi_current_line,
                   gi_current_line_width, gi_i, gi_line_num, gi_k, gi_x, gi_drawn, gi_ret>>
    /\ UNCHANGED <<ttVars, dpVars, wtVars, rng, thVars>>

\* elements 1 to 5 are drawn and all_pills is built, image.py 218-292
DrawBase ==
    /\ gi_pc = "base"
    /\ gi_canvas' = BaseElements(gi_station, gi_station_name, gi_theme, gi_width)
    /\ gi_all_pills' = AllPills(gi_verbatims, gi_tags, gi_artists, gi_theme.pill_bg_color)
    /\ gi_pc' = "seed"
    /\ UNCHANGED <<gi_rng_at_call, gi_station, gi_station_name, gi_verbatims, gi_tags, gi_artists,
                   gi_width, gi_theme, gi_lines, gi_current_line,
                   gi_current_line_width, gi_i, gi_line_num, gi_k, gi_x, gi_drawn,
                   gi_ret, gi_error>>
    /\ UNCHANGED <<ttVars, dpVars, wtVars, rng, thVars>>

\* random.seed(420), image.py 295
SeedRandom ==
    /\ gi_pc = "seed"
    /\ rng' = SeedState(420)
    /\ gi_pc' = "shuffle"
    /\ UNCHANGED <<gi_rng_at_call, gi_station, gi_station_name, gi_verbatims, gi_tags, gi_artists,
                   gi_width, gi_theme, gi_canvas, gi_all_pills, gi_lines, gi_current_line,
                   gi_current_line_width, gi_i, gi_line_num, gi_k, gi_x, gi_drawn,
                   gi_ret, gi_error>>
    /\ UNCHANGED <<ttVars, dpVars, wtVars, thVars>>

\* random.shuffle(all_pills) and `if all_pills:`, image.py 296-310
ShufflePills ==
    /\ gi_pc = "shuffle"
    /\ LET r == Shuffle(gi_all_pills, rng)
       IN gi_all_pills' = r.x /\ rng' = r.rng
    /\ gi_pc' = IF gi_all_pills' # <<>> THEN "pack" ELSE "encode"
    /\ UNCHANGED <<gi_rng_at_call, gi_station, gi_station_name, gi_verbatims, gi_tags, gi_artists,
                   gi_width, gi_theme, gi_canvas, gi_lines, gi_current_line,
                   gi_current_line_width, gi_i, gi_line_num, gi_k, gi_x, gi_drawn,
                   gi_ret, gi_error>>
    /\ UNCHANGED <<ttVars, dpVars, wtVars, thVars>>

\* one iteration of `for pill_type, pill_text, pill_bg in all_pills`,
\* image.py 312-343
PackItem ==
    /\ gi_pc = "pack"
    /\ gi_i < Len(gi_all_pills)
    /\ LET r == PackStep(gi_lines, gi_current_line, gi_current_line_width,
                         gi_all_pills[gi_i + 1], gi_width)
       IN /\ gi_lines' = r.lines
          /\ gi_current_line' = r.current_line
          /\ gi_current_line_width' = r.current_line_width
          /\ gi_i' = IF r.broke THEN gi_i ELSE gi_i + 1
          /\ gi_pc' = IF r.broke THEN "break" ELSE "pack"
    /\ UNCHANGED <<gi_rng_at_call, gi_station, gi_station_name, gi_verbatims, gi_tags, gi_artists,
                   gi_width, gi_theme, gi_canvas, gi_all_pills, gi_line_num, gi_k,
                   gi_x, gi_drawn, gi_ret, gi_error>>
    /\ UNCHANGED <<ttVars, dpVars, wtVars, rng, thVars>>

\* the loop has ended or was left by break: the last line is added,
\* image.py 345-352
PackEnd ==
    /\ \/ gi_pc = "pack" /\ gi_i = Len(gi_all_pills)
       \/ gi_pc = "break"
    /\ gi_lines' = IF gi_current_line # <<>> /\ Len(gi_lines) < max_lines
                   THEN Append(gi_lines, gi_current_line)
                   ELSE gi_lines
    /\ gi_line_num' = 0
    /\ gi_k' = 0
    /\ gi_x' = pill_start_x
    /\ gi_pc' = IF gi_lines' # <<>> THEN "render" ELSE "encode"
    /\ UNCHANGED <<gi_rng_at_call, gi_station, gi_station_name, gi_verbatims, gi_tags, gi_artists,
                   gi_width, gi_theme, gi_canvas, gi_all_pills, gi_current_line,
                   gi_current_line_width, gi_i, gi_drawn, gi_ret, gi_error>>
    /\ UNCHANGED <<ttVars, dpVars, wtVars, rng, thVars>>

\* pill gi_k (from 0) of line gi_line_num is shortened if needed and drawn,
\* and the cursor moves on, image.py 350-380
RenderPill ==
    /\ gi_pc = "render"
    /\ LET line_pills == gi_lines[gi_line_num + 1]
           pill == line_pills[gi_k + 1]
           y == LineY(gi_line_num)
           max_text_width == MaxPillRight(gi_width) - gi_x - 50
           display_text == DisplayText(pill[2], max_text_width)
           r == DrawPill(display_text, Some(<<gi_x, y>>), None, None, None,
                         0, <<0, 0>>, 25, pill_height)
           last_of_line == gi_k + 1 = Len(line_pills)
           last_line == gi_line_num + 1 = Len(gi_lines)
       IN /\ gi_canvas' = Append(gi_canvas, [elem |-> "pill", ops |-> r.canvas])
          /\ gi_drawn' = Append(gi_drawn, [line_num |-> gi_line_num, pill |-> pill,
                                           x |-> gi_x, display_text |-> display_text,
                                           bbox |-> r.ret])
          /\ gi_x' = IF last_of_line /\ ~last_line THEN pill_start_x ELSE NextX(r.ret)
          /\ gi_k' = IF last_of_line THEN 0 ELSE gi_k + 1
          /\ gi_line_num' = IF last_of_line THEN gi_line_num + 1 ELSE gi_line_num
          /\ gi_pc' = IF last_of_line /\ last_line THEN "encode" ELSE "render"
    /\ UNCHANGED <<gi_rng_at_call, gi_station, gi_station_name, gi_verbatims, gi_tags, gi_artists,
                   gi_width, gi_theme, gi_all_pills, gi_lines, gi_current_line,
                   gi_current_line_width, gi_i, gi_ret, gi_error>>
    /\ UNCHANGED <<ttVars, dpVars, wtVars, rng, thVars>>

\* the image is saved as PNG and returned in base64, image.py 382-388
Encode ==
    /\ gi_pc = "encode"
    /\ gi_ret' = Some([image_base64 |-> gi_canvas])
    /\ gi_pc' = "returned"
    /\ UNCHANGED <<gi_rng_at_call, gi_station, gi_station_name, gi_verbatims, gi_tags, gi_artists,
                   gi_width, gi_theme, gi_canvas, gi_all_pills, gi_lines, gi_current_line,
                   gi_current_line_width, gi_i, gi_line_num, gi_k, gi_x, gi_drawn, gi_error>>
    /\ UNCHANGED <<ttVars, dpVars, wtVars, rng, thVars>>

-----------------------------------------------------------------------------
(* predict, api.py 65-100, run by the server's worker threads: the random  *)
(* draws of the model (model.py 121-125, 201, 242-243) and the seeding and *)
(* the shuffle of generate_image (image.py 294-296), all on the one        *)
(* generator of the process.  random.choice, random.sample and             *)
(* random.shuffle are Python code around getrandbits, so another thread    *)
(* can run between any two outputs of the generator: a step is one output. *)

Threads == 1..NThreads

\* the number of radio terms of a language (the terms file is data, read at
\* start-up by get_radio_terms)
NTerms == 4

\* the number of answers of a request, one per question of the Questionnaire
NAnswers == 5

\* the artists of a station, model.py 183-199
ArtistsOf(station) ==
    CASE station = "slower" ->
        << <<"F", "o", "l", "a", "m", "o", "u", "r">>,
           <<"P", "o", "l", "o", "&", "P", "a", "n">>,
           <<"P", "e", "g", "g", "y", " ", "G", "o", "u">> >>
      [] station = "slow" ->
        << <<"D", "J", " ", "H", "e", "a", "r", "t", "s", "t", "r", "i", "n", "g", "s">>,
           <<"U", "p", "e", "r", "9", "0">>,
           <<"P", "a", "r", "a", "m", "i", "d", "a">>,
           <<"A", "s", "p", "h", "a", "l", "t", " ", "D", "J">>,
           <<"B", "l", "i", "s", "s", " ", "I", "n", "c", ".">> >>
      [] station = "fast" ->
        << <<"A", "l", "a", "r", "i", "c", "o">>,
           <<"C", "h", "l", "ä", "r">>,
           <<"M", "a", "c", " ", "D", "e", "c", "l", "o", "s">> >>
      [] station = "faster" ->
        << <<"S", "h", "l", "ø", "m", "o">>,
           <<"9", "9", "9", "9", "9", "9", "9", "9", "9">>,
           <<"R", "e", "b", "e", "k", "a", "h">>,
           <<"C", "l", "a", "r", "a", " ", "C", "u", "v", "é">>,
           <<"S", "P", "F", "D", "J">> >>
      [] OTHER ->
        << <<"D", "J", " ", "M", "e", "h", "d", "i">>,
           <<"M", "y", "d">>,
           <<"S", "e", "b", "a", "s", "t", "i", "a", "n">> >>

\* the requests: the language, the station the answers lead to and the tags
\* generate_best_tags returns (at most 5, fewer if the tags file is short)
Requests == [language : {"fr", "en"}, station : {"slower", "slow"}, tags : {<<ShortText>>}]

\* no request and no request input
NoRequest == [language |-> "", station |-> "", tags |-> <<>>]

\* get_best_verbatims: two of the user's answers, model.py 168-178
ServerVerbatims == <<MediumText, LongText>>

\* no request has been served and none is under way
ServerIdle ==
    /\ th_pc = [t \in Threads |-> "off"]
    /\ th_request = [t \in Threads |-> NoRequest]
    /\ th_name = [t \in Threads |-> <<>>]
    /\ th_pool = [t \in Threads |-> <<>>]
    /\ th_artists = [t \in Threads |-> <<>>]
    /\ th_input = [t \in Threads |-> <<>>]
    /\ th_pills = [t \in Threads |-> <<>>]
    /\ th_i = [t \in Threads |-> 0]
    /\ requests = 0
    /\ flips = 0
    /\ running = 0
    /\ switches = 0
    /\ seen = {}

\* the server with `workers` threads waiting for requests; the generator was
\* seeded from the system's entropy at import
InitServer(workers) ==
    /\ th_pc = [t \in Threads |-> IF t <= workers THEN "idle" ELSE "off"]
    /\ th_request = [t \in Threads |-> NoRequest]
    /\ th_name = [t \in Threads |-> <<>>]
    /\ th_pool = [t \in Threads |-> <<>>]
    /\ th_artists = [t \in Threads |-> <<>>]
    /\ th_input = [t \in Threads |-> <<>>]
    /\ th_pills = [t \in Threads |-> <<>>]
    /\ th_i = [t \in Threads |-> 0]
    /\ requests = 0
    /\ flips = 0
    /\ running = 0
    /\ switches = 0
    /\ seen = {}
    /\ rng \in {SeedState(12), SeedState(17)}

\* the interpreter runs thread t for one step: it goes on with the thread it
\* runs, or switches to t
Scheduled(t) ==
    /\ running \in {0, t} \/ switches < MaxSwitches
    /\ running' = t
    /\ switches' = IF running \in {0, t} THEN switches ELSE switches + 1

\* a request reaches predict; compute_user_station needs no random draw,
\* api.py 65-79
PredictCall(t) ==
    /\ th_pc[t] = "idle"
    /\ Scheduled(t)
    /\ requests < MaxRequests
    /\ requests' = requests + 1
    /\ \E r \in Requests : th_request' = [th_request EXCEPT ![t] = r]
    /\ th_pc' = [th_pc EXCEPT ![t] = "name"]
    /\ UNCHANGED <<th_name, th_pool, th_artists, th_input, th_pills, th_i, flips, seen, rng>>
    /\ UNCHANGED <<ttVars, dpVars, wtVars, giVars>>

\* the draw generate_station_name makes when `done` of its two are made:
\* choice(list(self.radio_terms)) then sample(best_names, length) in French,
\* the sample then the choice otherwise, model.py 121-125
NameDraw(language, done) ==
    IF (language = "fr") = (done = 0)
    THEN [part |-> "term", n |-> NTerms]
    ELSE [part |-> "name", n |-> NAnswers]

\* one output of the generator inside generate_station_name: a value below n
\* is the index drawn, another one is drawn again
StationNameDraws(t) ==
    /\ th_pc[t] = "name"
    /\ Scheduled(t)
    /\ Tabulated(rng)
    /\ LET d == NameDraw(th_request[t].language, Len(th_name[t]))
           r == GetRandBits(rng, BitLength(d.n))
           name == IF r < d.n THEN Append(th_name[t], <<d.part, r>>) ELSE th_name[t]
       IN /\ th_name' = [th_name EXCEPT ![t] = name]
          /\ th_pc' = [th_pc EXCEPT ![t] = IF Len(name) = 2 THEN "artists" ELSE "name"]
          /\ th_pool' = [th_pool EXCEPT ![t] = IF Len(name) = 2
                                                THEN ArtistsOf(th_request[t].station)
                                                ELSE @]
    /\ rng' = RngNext(rng)
    /\ UNCHANGED <<th_request, th_artists, th_input, th_pills, th_i, requests, flips, seen>>
    /\ UNCHANGED <<ttVars, dpVars, wtVars, giVars>>

\* the number of artists generate_best_artists samples: min(length, len(artists))
SampleSize(artists) == IF Len(artists) < 3 THEN Len(artists) ELSE 3

\* one output of the generator inside sample(artists, 3), model.py 201: with
\* i artists selected and n in the pool, j = randbelow(n - i) selects pool[j]
\* and pool[n - i - 1] takes its place
ArtistsDraws(t) ==
    /\ th_pc[t] = "artists"
    /\ Scheduled(t)
    /\ Tabulated(rng)
    /\ LET pool == th_pool[t]
           left == Len(pool) - Len(th_artists[t])
           r == GetRandBits(rng, BitLength(left))
           artists == IF r < left THEN Append(th_artists[t], pool[r + 1]) ELSE th_artists[t]
       IN /\ th_artists' = [th_artists EXCEPT ![t] = artists]
          /\ th_pool' = [th_pool EXCEPT ![t] = IF r < left
                                                THEN [pool EXCEPT ![r + 1] = pool[left]]
                                                ELSE pool]
          /\ th_pc' = [th_pc EXCEPT ![t] = IF Len(artists) = SampleSize(pool)
                                            THEN "image" ELSE "artists"]
    /\ rng' = RngNext(rng)
    /\ UNCHANGED <<th_request, th_name, th_input, th_pills, th_i, requests, flips, seen>>
    /\ UNCHANGED <<ttVars, dpVars, wtVars, giVars>>

\* generate_image up to the shuffle: all_pills is built from the verbatims,
\* the tags and the sampled artists, image.py 280-292
BuildPills(t) ==
    /\ th_pc[t] = "image"
    /\ Scheduled(t)
    /\ LET p == AllPills(ServerVerbatims, th_request[t].tags, th_artists[t],
                         Theme(th_request[t].station).pill_bg_color)
       IN /\ th_input' = [th_input EXCEPT ![t] = p]
          /\ th_pills' = [th_pills EXCEPT ![t] = p]
    /\ th_pc' = [th_pc EXCEPT ![t] = "seed"]
    /\ UNCHANGED <<th_request, th_name, th_pool, th_artists, th_i, requests, flips, seen, rng>>
    /\ UNCHANGED <<ttVars, dpVars, wtVars, giVars>>

\* a plausible slip: the seeding left out
SeedOf_Unseeded(s) == s

\* the state of the process's generator after random.seed(420), image.py 295
SeedOf(s) == SeedState(420)

\* random.seed(420), image.py 295
ThreadSeed(t) ==
    /\ th_pc[t] = "seed"
    /\ Scheduled(t)
    /\ rng' = SeedOf(rng)
    /\ th_i' = [th_i EXCEPT ![t] = Len(th_pills[t]) - 1]
    /\ th_pc' = [th_pc EXCEPT ![t] = "shuffle"]
    /\ UNCHANGED <<th_request, th_name, th_pool, th_artists, th_input, th_pills,
                   requests, flips, seen>>
    /\ UNCHANGED <<ttVars, dpVars, wtVars, giVars>>

\* one output of the generator inside random.shuffle(all_pills), image.py
\* 296: at index i, a value j below i + 1 exchanges x[i] and x[j] and the
\* loop moves on, another one is drawn again
ThreadSwap(t) ==
    /\ th_pc[t] = "shuffle"
    /\ Scheduled(t)
    /\ th_i[t] >= 1
    /\ Tabulated(rng)
    /\ LET r == GetRandBits(rng, BitLength(th_i[t] + 1))
       IN IF r < th_i[t] + 1
          THEN /\ th_pills' = [th_pills EXCEPT ![t] = Swap(@, th_i[t], r)]
               /\ th_i' = [th_i EXCEPT ![t] = @ - 1]
          ELSE UNCHANGED <<th_pills, th_i>>
    /\ rng' = RngNext(rng)
    /\ UNCHANGED <<th_pc, th_request, th_name, th_pool, th_artists, th_input,
                   requests, flips, seen>>
    /\ UNCHANGED <<ttVars, dpVars, wtVars, giVars>>

\* random.shuffle has returned: the pills are packed and drawn in this order
ThreadShuffled(t) ==
    /\ th_pc[t] = "shuffle"
    /\ Scheduled(t)
    /\ th_i[t] < 1
    /\ th_pc' = [th_pc EXCEPT ![t] = "shuffled"]
    /\ UNCHANGED <<th_request, th_name, th_pool, th_artists, th_input, th_pills, th_i,
                   requests, flips, seen, rng>>
    /\ UNCHANGED <<ttVars, dpVars, wtVars, giVars>>

\* generate_image and predict return, api.py 92-100
ThreadReturn(t) ==
    /\ th_pc[t] = "shuffled"
    /\ Scheduled(t)
    /\ seen' = seen \cup {<<th_input[t], th_pills[t]>>}
    /\ th_pc' = [th_pc EXCEPT ![t] = "idle"]
    /\ th_request' = [th_request EXCEPT ![t] = NoRequest]
    /\ th_name' = [th_name EXCEPT ![t] = <<>>]
    /\ th_pool' = [th_pool EXCEPT ![t] = <<>>]
    /\ th_artists' = [th_artists EXCEPT ![t] = <<>>]
    /\ th_input' = [th_input EXCEPT ![t] = <<>>]
    /\ th_pills' = [th_pills EXCEPT ![t] = <<>>]
    /\ UNCHANGED <<th_i, requests, flips, rng>>
    /\ UNCHANGED <<ttVars, dpVars, wtVars, giVars>>

\* one output of the generator inside coin_flip, model.py 242-243:
\* choice((True, False)) draws getrandbits(2) until the value is below 2;
\* called by code outside predict, on a thread that serves no request
coin_flip(t) ==
    /\ th_pc[t] \in {"idle", "flip"}
    /\ Scheduled(t)
    /\ th_pc[t] = "idle" => flips < MaxFlips
    /\ Tabulated(rng)
    /\ flips' = IF th_pc[t] = "idle" THEN flips + 1 ELSE flips
    /\ th_pc' = [th_pc EXCEPT ![t] = IF GetRandBits(rng, BitLength(2)) < 2
                                      THEN "idle" ELSE "flip"]
    /\ rng' = RngNext(rng)
    /\ UNCHANGED <<th_request, th_name, th_pool, th_artists, th_input, th_pills,
                   th_i, requests, seen>>
    /\ UNCHANGED <<ttVars, dpVars, wtVars, giVars>>

-----------------------------------------------------------------------------
(* Specifications *)

NextTrack == TrackChar \/ TrackReturn

\* draw_text_with_tracking on every bounded input
\* outside generate_image the generator is in some state and is not used
RngIdle == rng = SeedState(0)

InitTrack == InitTrackCall /\ PillIdle /\ WrapIdle /\ GenIdle /\ RngIdle /\ ServerIdle

SpecTrack == InitTrack /\ [][NextTrack]_vars

NextPill == DrawPillCall

\* draw_pill on every bounded input
InitPill == InitPillCall /\ TrackIdle /\ WrapIdle /\ GenIdle /\ RngIdle /\ ServerIdle

SpecPill == InitPill /\ [][NextPill]_vars

NextWrap == WrapSplit \/ WrapCap \/ WrapRender

InitWrap == InitWrapCall /\ TrackIdle /\ PillIdle /\ GenIdle /\ RngIdle /\ ServerIdle

\* draw_wrapped_text on every bounded input
SpecWrap == InitWrap /\ [][NextWrap]_vars

Next ==
    \/ OpenBackground \/ DrawBase \/ SeedRandom \/ ShufflePills
    \/ PackItem \/ PackEnd \/ RenderPill \/ Encode

Init == InitGenCall /\ TrackIdle /\ PillIdle /\ WrapIdle /\ ServerIdle

\* one call of generate_image on every bounded input
Spec == Init /\ [][Next]_vars

NextServer ==
    \E t \in Threads :
        \/ PredictCall(t) \/ StationNameDraws(t) \/ ArtistsDraws(t) \/ BuildPills(t)
        \/ ThreadSeed(t) \/ ThreadSwap(t) \/ ThreadShuffled(t) \/ ThreadReturn(t)
        \/ coin_flip(t)

InitSeq == InitServer(1) /\ TrackIdle /\ PillIdle /\ WrapIdle /\ GenIdle

\* requests served one after the other by a single worker
SpecSeq == InitSeq /\ [][NextServer]_vars

InitConc == InitServer(NThreads) /\ TrackIdle /\ PillIdle /\ WrapIdle /\ GenIdle

\* requests served at the same time by the worker threads of the server
SpecServer == InitConc /\ [][NextServer]_vars

-----------------------------------------------------------------------------
(* Claims *)

RECURSIVE SumOver(_, _, _)
\* sum of f[text[j]] for j in 1..n
SumOver(f, text, n) == IF n = 0 THEN 0 ELSE SumOver(f, text, n - 1) + f[text[n]]

AllChars == {"i", "m", " ", "."}

\* the cursor after the first n characters when each advance is rounded half-up
RoundedCursor(n) ==
    tt_position[1]
    + SumOver([c \in AllChars |-> RoundHalfUp(HalfAdvance(c)) + tt_tracking], tt_text, n)

\* C10 as stated: character k is drawn at position.x plus the sum, over the
\* characters before it, of round-half-up(advance) + tracking, all at the same
\* y, and the renderer returns the final cursor.
C10_RoundHalfUpCursor ==
    /\ \A k \in 1..Len(tt_canvas) :
          tt_canvas[k] = [x |-> RoundedCursor(k - 1), y |-> tt_position[2], char |-> tt_text[k]]
    /\ tt_pc = "done" => tt_ret = Some(RoundedCursor(Len(tt_text)))

\* the top-left the claim's rules give, rule 2 applying whenever an anchor, a
\* reference text and a reference font are given
C9_ClaimedOrigin ==
    IF dp_position # None THEN dp_position[1]
    ELSE IF dp_relative_to # None /\ dp_relative_to_text # None /\ dp_relative_to_font # None
    THEN <<dp_relative_to[1][1] + BBoxWidth(dp_relative_to_text[1]) + dp_gap,
           dp_relative_to[1][2] + (BBoxHeight(dp_relative_to_text[1]) - dp_pill_height) \div 2>>
    ELSE IF dp_relative_to # None THEN dp_relative_to[1]
    ELSE <<0, 0>>

\* the same rules, rule 2 applying only when the reference text is not empty
C9_AmendedOrigin ==
    IF dp_position # None THEN dp_position[1]
    ELSE IF /\ dp_relative_to # None
            /\ dp_relative_to_text # None /\ dp_relative_to_text # Some(<<>>)
            /\ dp_relative_to_font # None
    THEN <<dp_relative_to[1][1] + BBoxWidth(dp_relative_to_text[1]) + dp_gap,
           dp_relative_to[1][2] + (BBoxHeight(dp_relative_to_text[1]) - dp_pill_height) \div 2>>
    ELSE IF dp_relative_to # None THEN dp_relative_to[1]
    ELSE <<0, 0>>

\* the bounding box of a pill whose top-left, before the offset, is origin
C9_Box(origin) ==
    LET x == origin[1] + dp_offset[1]
        y == origin[2] + dp_offset[2]
    IN <<x, y, x + BBoxWidth(dp_text) + 2 * dp_padding_x, y + dp_pill_height>>

\* C9 as stated: the top-left is the explicit position, else anchor + reference
\* width + gap (vertically centred) when anchor, reference text and font are
\* given, else the anchor, else (0,0); the offset is added in every case and
\* the returned box is (x, y, x + text width + 2*paddingX, y + height).
C9_PositionPriority ==
    dp_pc = "done" => dp_ret = Some(C9_Box(C9_ClaimedOrigin))

\* C9 amended: as stated, except that rule 2 applies only when the reference
\* text is not empty; with an empty reference text the anchor alone is used.
C9_PositionPriorityNonEmptyRef ==
    dp_pc = "done" =>
        /\ dp_ret = Some(C9_Box(C9_AmendedOrigin))
        /\ dp_canvas[1].box = C9_Box(C9_AmendedOrigin)

\* a pill drawn with an explicit position although an anchor, a reference
\* text and a font were given too, and with a non-zero offset
C9_Witness ==
    /\ dp_pc = "done"
    /\ dp_position = Some(<<10, 20>>)
    /\ dp_relative_to # None /\ dp_relative_to_text = Some(<<"m", "i">>)
    /\ dp_relative_to_font # None
    /\ dp_offset = <<-3, 5>>
    /\ dp_ret[1][1] = 7 /\ dp_ret[1][2] = 25

\* measuredWidth(text, tracking): the sum over the characters of
\* round-half-up(advance) + tracking; without tracking, the native width
MeasuredWidth(text, tracking) ==
    IF tracking = None THEN BBoxWidth(text)
    ELSE SumOver([c \in AllChars |-> RoundHalfUp(HalfAdvance(c)) + tracking[1]], text, Len(text))

\* C5 as stated: every line produced by the word-wrapping measures at most
\* maxWidth under the tracking it is drawn with, except a line made of one
\* single word that is by itself wider than maxWidth.
C5_WrapWidthBound ==
    wt_pc \in {"wrapped", "capped", "done"} =>
        \A k \in 1..Len(wt_wrapped) :
            \/ MeasuredWidth(wt_wrapped[k].text, wt_tracking) <= wt_max_width
            \/ /\ Len(Split(wt_wrapped[k].text)) = 1
               /\ MeasuredWidth(wt_wrapped[k].text, wt_tracking) > wt_max_width

EndsWithEllipsis(text) ==
    Len(text) >= 3 /\ SubSeq(text, Len(text) - 2, Len(text)) = Ellipsis

\* the wrap is cut: a cap of at least 1 is set and the uncapped wrap is longer
C6_Cut == wt_max_lines # None /\ wt_max_lines[1] >= 1 /\ Len(wt_wrapped) > wt_max_lines[1]

\* C6: when maxLines >= 1 is set and the uncapped wrap has more than maxLines
\* lines, the result has exactly maxLines lines, the first maxLines-1 are the
\* uncapped lines unchanged and plain, and only the last is a (text, "...")
\* line, whose rendered form ends with "..."; otherwise no line is Truncated
\* and the result is the uncapped wrap.
C6_WrapLineCap ==
    wt_pc \in {"capped", "done"} =>
        /\ C6_Cut =>
             /\ Len(wt_lines) = wt_max_lines[1]
             /\ \A k \in 1..(wt_max_lines[1] - 1) :
                   wt_lines[k] = wt_wrapped[k] /\ wt_lines[k].kind = "str"
             /\ wt_lines[wt_max_lines[1]].kind = "tuple"
             /\ wt_lines[wt_max_lines[1]].ellipsis = Ellipsis
             /\ wt_pc = "done" =>
                   /\ wt_canvas # <<>>
                   /\ EndsWithEllipsis(wt_canvas[Len(wt_canvas)].text)
                   /\ wt_canvas[Len(wt_canvas)].y =
                        wt_position[2] + (wt_max_lines[1] - 1) * (FontSize + wt_line_spacing)
        /\ ~C6_Cut =>
             /\ wt_lines = wt_wrapped
             /\ \A k \in 1..Len(wt_lines) : wt_lines[k].kind = "str"

\* a wrap of two lines cut to one, whose kept line was shortened by a character
C6_Witness ==
    /\ wt_pc = "done"
    /\ wt_text = <<"m", "m", "m", "m", " ", "m">>
    /\ wt_max_width = 90
    /\ wt_max_lines = Some(1)
    /\ Len(wt_wrapped) = 2
    /\ wt_lines = <<Truncated(<<"m", "m", "m">>)>>

\* maxRightEdge - start of the call
C1_Bound == MaxPillRight(gi_width) - pill_start_x

RECURSIVE C1_SumWidths(_)
\* the sum of the pill widths (text width + 50) of the items of a line
C1_SumWidths(line) ==
    IF line = <<>> THEN 0 ELSE BBoxWidth(Head(line)[2]) + 50 + C1_SumWidths(Tail(line))

\* the width of a line: its pills and the gaps between them
C1_LineWidth(line) == C1_SumWidths(line) + (Len(line) - 1) * 24

C1_LineOk(line) ==
    /\ \/ C1_LineWidth(line) <= C1_Bound
       \/ Len(line) = 1 /\ BBoxWidth(line[1][2]) + 50 > C1_Bound
    /\ \A k \in 1..Len(line) : BBoxWidth(line[k][2]) + 50 > C1_Bound => Len(line) = 1

\* C1: every packed line (and the line being filled) has pill widths plus gaps
\* of at most maxRightEdge - start, except a line of exactly one item that is
\* by itself wider; an item wider than the bound never shares a line.
C1_PackingWidthBound ==
    /\ \A n \in 1..Len(gi_lines) : C1_LineOk(gi_lines[n])
    /\ gi_current_line # <<>> => C1_LineOk(gi_current_line)

\* a finished packing with a line of several pills and a line made of one
\* pill wider than the bound
C1_Witness ==
    /\ gi_pc = "returned"
    /\ \E n \in 1..Len(gi_lines) : Len(gi_lines[n]) >= 2 /\ C1_LineWidth(gi_lines[n]) > 200
    /\ \E n \in 1..Len(gi_lines) :
          Len(gi_lines[n]) = 1 /\ C1_LineWidth(gi_lines[n]) > C1_Bound

RECURSIVE Flatten(_)
\* the items of the lines, line by line and left to right
Flatten(ls) == IF ls = <<>> THEN <<>> ELSE Head(ls) \o Flatten(Tail(ls))

\* C4: the number of packed lines is at most maxLines (4) at every point of
\* the packing and in the result; items are left out only when 4 lines are
\* closed, and an item left out is neither in a line of the result, nor in a
\* further line, nor drawn: the result holds the first gi_i items only.
C4_PackLineCap ==
    /\ Len(gi_lines) <= 4
    /\ gi_pc \in {"render", "encode", "returned"} /\ gi_all_pills # <<>> =>
          /\ Flatten(gi_lines) = SubSeq(gi_all_pills, 1, gi_i)
          /\ gi_i < Len(gi_all_pills) => Len(gi_lines) = 4
    /\ gi_pc = "returned" =>
          [k \in 1..Len(gi_drawn) |-> gi_drawn[k].pill] = Flatten(gi_lines)

\* a finished call whose packing stopped at the line cap with two items left
\* out
C4_Witness ==
    /\ gi_pc = "returned"
    /\ Len(gi_lines) = 4
    /\ gi_i + 2 = Len(gi_all_pills)
    /\ Len(gi_drawn) = gi_i

RECURSIVE C7_LineOf(_, _)
\* the number (from 0) of the line that holds item k of the flattened lines
C7_LineOf(ls, k) ==
    IF k <= Len(Head(ls)) THEN 0 ELSE 1 + C7_LineOf(Tail(ls), k - Len(Head(ls)))

\* the pills of the label grid on the canvas
C7_Pills == SelectSeq(gi_canvas, LAMBDA e : e.elem = "pill")

\* C7: the left edge of a pill that follows another on its line is the right
\* edge of the box returned for the earlier one plus gapX (24); the first
\* pill of every line starts at the start x (66); the pills of line n have
\* the top y = 1300 + n * (78 + 24).
C7_BoundingBoxChaining ==
    /\ Len(C7_Pills) = Len(gi_drawn)
    /\ \A k \in 1..Len(gi_drawn) :
          LET d == gi_drawn[k]
              n == C7_LineOf(gi_lines, k)
              box == C7_Pills[k].ops[1].box
          IN /\ box = d.bbox
             /\ d.line_num = n
             /\ box[2] = 1300 + n * (78 + 24)
             /\ (k = 1 \/ C7_LineOf(gi_lines, k - 1) # n) => box[1] = 66
             /\ (k > 1 /\ C7_LineOf(gi_lines, k - 1) = n) =>
                   box[1] = gi_drawn[k - 1].bbox[3] + 24

\* a finished call that drew two pills on one line and a pill on a later line
C7_Witness ==
    /\ gi_pc = "returned"
    /\ Len(gi_lines) >= 2
    /\ Len(gi_lines[1]) >= 2
    /\ Len(gi_drawn) >= 3
    /\ gi_drawn[2].bbox[1] > 66 + 24

\* C8 as stated: a station outside the four enumerated values makes the
\* generation fail with InvalidCategoryError; nothing is drawn and nothing is
\* returned.
C8_InvalidCategoryError ==
    (gi_pc \notin {"idle", "match"} /\ gi_station \notin {"slower", "slow", "fast", "faster"}) =>
        /\ gi_error = Some("InvalidCategoryError")
        /\ gi_canvas = <<>>
        /\ gi_ret = None

\* C2 as stated: calls that run at the same time and have the same seed and
\* the same pre-shuffle sequence obtain the same permutation, whatever the
\* other threads did between a call's seeding and its shuffle.
C2_ConcurrentShuffleDeterminism ==
    \A t1 \in Threads : \A t2 \in Threads :
        (/\ th_pc[t1] = "shuffled" /\ th_pc[t2] = "shuffled"
         /\ th_input[t1] = th_input[t2]) => th_pills[t1] = th_pills[t2]

\* C3: a call, served after other calls and draws, that has the pre-shuffle
\* sequence of an earlier finished call (and the seed 420 of every call)
\* obtains the shuffled order the earlier call obtained.
C3_SequentialShuffleDeterminism ==
    \A t \in Threads :
        th_pc[t] = "shuffled" =>
            \A p \in seen : p[1] = th_input[t] => p[2] = th_pills[t]

\* a second call on a sequence has shuffled it, into an order that is not the
\* original one, after a call on that sequence had finished
C3_Witness ==
    /\ th_pc[1] = "shuffled"
    /\ \E p \in seen : p[1] = th_input[1]
    /\ th_pills[1] # th_input[1]

\* the distance the tracked renderer advances while drawing text: the sum of
\* int(advance + tracking) over its characters
C11_RendererAdvance(text, tracking) ==
    SumOver([c \in AllChars |-> IntOfHalf(HalfAdvance(c) + 2 * tracking)], text, Len(text))

\* the width the wrap check compared with maxWidth when it accepted the last
\* word of a line: the bbox width of the line
C11_WrapCompared(text) == BBoxWidth(text)

\* C11 as stated: one width rule everywhere. For every line drawn with
\* tracking, the width the wrapper compared with maxWidth equals the distance
\* the tracked renderer advances over that line, and the ellipsis of a
\* Truncated tracked line is drawn at exactly that distance from the line start.
C11_OneWidthRule ==
    (wt_pc = "done" /\ wt_tracking # None) =>
        /\ \A k \in 1..Len(wt_wrapped) :
              C11_WrapCompared(wt_wrapped[k].text)
                  = C11_RendererAdvance(wt_wrapped[k].text, wt_tracking[1])
        /\ \A k \in 1..Len(wt_lines) :
              wt_lines[k].kind = "tuple" =>
                  wt_canvas[Len(wt_canvas)].x2
                      = 2 * (wt_position[1]
                             + C11_RendererAdvance(wt_lines[k].text, wt_tracking[1]))

\* the call has a mapped station and no label at all
C12_NoLabels ==
    /\ gi_pc \notin {"idle", "match", "raised"}
    /\ gi_verbatims = <<>> /\ gi_tags = <<>> /\ gi_artists = <<>>

\* the names of the elements drawn so far, in drawing order
C12_Drawn == [k \in 1..Len(gi_canvas) |-> gi_canvas[k].elem]

\* C12: when verbatims, tags and artists are all empty, the packing yields
\* zero lines and no pill of the label grid is drawn, nothing is raised, the
\* five base elements (frequency, genre caption, scene pill, date, title) are
\* drawn, each with something on the canvas, and the call returns the encoded
\* image holding exactly them.
C12_EmptyLabels ==
    C12_NoLabels =>
        /\ gi_all_pills = <<>> /\ gi_lines = <<>> /\ gi_current_line = <<>>
        /\ gi_drawn = <<>>
        /\ gi_pc \notin {"pack", "break", "render"}
        /\ gi_error = None
        /\ gi_pc \in {"seed", "shuffle", "encode", "returned"} =>
              /\ C12_Drawn = <<"frequency", "scene_genre", "scene_name", "date", "station_name">>
              /\ \A k \in 1..Len(gi_canvas) : gi_canvas[k].ops # <<>>
        /\ gi_pc = "returned" => gi_ret = Some([image_base64 |-> gi_canvas])

\* a call without any label that has returned its image
C12_Witness ==
    /\ C12_NoLabels
    /\ gi_pc = "returned"
    /\ gi_ret # None
    /\ Len(gi_canvas) = 5

\* the first word of a line
C13_FirstWord(text) == Split(text)[1]

\* C13 as stated: greedy wrap under the tracking the lines are drawn with. In
\* the uncapped result, every line that is not the last, joined by a space
\* with the first word of the next line, measures more than maxWidth under
\* that tracking: no line is closed while the next word would still fit.
C13_GreedyWrap ==
    wt_pc \in {"wrapped", "capped", "done"} =>
        \A k \in 1..(Len(wt_wrapped) - 1) :
            MeasuredWidth(wt_wrapped[k].text \o <<" ">> \o C13_FirstWord(wt_wrapped[k + 1].text),
                          wt_tracking) > wt_max_width

\* the text of a drawn pill fits at the cursor it was drawn at
C14_FitsAt(text, x) == x + BBoxWidth(text) + 2 * 25 <= MaxPillRight(gi_width)

\* the text after n shortening steps: the original without its last n + 3
\* characters, followed by "..."
C14_Cut(text, n) == SubSeq(text, 1, Len(text) - 3 - n) \o Ellipsis

\* C14: a pill whose text fits at the cursor or has at most 6 characters is
\* drawn with its text unchanged; otherwise the drawn text is the original cut
\* by n >= 1 steps (a prefix of at least 3 characters followed by "..."), n
\* being the first step count whose text fits or has 6 characters; and every
\* drawn pill ends at or before max_pill_right unless its drawn text has at
\* most 6 characters.
C14_PillTruncation ==
    \A k \in 1..Len(gi_drawn) :
        LET d == gi_drawn[k]
            text == d.pill[2]
        IN /\ (C14_FitsAt(text, d.x) \/ Len(text) <= 6) => d.display_text = text
           /\ ~(C14_FitsAt(text, d.x) \/ Len(text) <= 6) =>
                 \E n \in 1..(Len(text) - 6) :
                     /\ d.display_text = C14_Cut(text, n)
                     /\ Len(d.display_text) = Len(text) - n
                     /\ C14_FitsAt(C14_Cut(text, n), d.x) \/ Len(C14_Cut(text, n)) = 6
                     /\ \A m \in 1..(n - 1) :
                           ~C14_FitsAt(C14_Cut(text, m), d.x) /\ Len(C14_Cut(text, m)) > 6
           /\ d.bbox[3] <= MaxPillRight(gi_width) \/ Len(d.display_text) <= 6
           /\ d.bbox[3] = d.x + BBoxWidth(d.display_text) + 2 * 25

\* a call that drew one pill unchanged and one cut down to 6 characters that
\* still ends beyond max_pill_right
C14_Witness ==
    /\ gi_pc = "returned"
    /\ \E k \in 1..Len(gi_drawn) :
          /\ gi_drawn[k].pill[2] = LongText
          /\ gi_drawn[k].display_text = <<"m", "m", "m", ".", ".", ".">>
          /\ gi_drawn[k].bbox[3] > MaxPillRight(gi_width)
    /\ \E k \in 1..Len(gi_drawn) : gi_drawn[k].display_text = ShortText

\* the first n characters of text
C15_Prefix(text, n) == SubSeq(text, 1, n)

\* the cutting stops at q: q followed by "..." fits max_width as the wrapper
\* measures it (the width of the whole string, without tracking), or q has 3
\* characters or fewer
C15_Stops(q) == BBoxWidth(q \o Ellipsis) <= wt_max_width \/ Len(q) <= 3

\* C15: when the line cap cuts the result, the text part of the Truncated line
\* is a prefix of the maxLines-th uncapped line, and the longest prefix p for
\* which p + "..." measures at most maxWidth or len(p) <= 3; a line of 3 or
\* fewer characters is kept whole, and the text part never has fewer than
\* min(3, length of that line) characters.
C15_WrapTruncationStop ==
    (wt_pc \in {"capped", "done"} /\ C6_Cut) =>
        LET whole == wt_wrapped[wt_max_lines[1]].text
            p == wt_lines[wt_max_lines[1]].text
        IN /\ Len(p) <= Len(whole)
           /\ p = C15_Prefix(whole, Len(p))
           /\ C15_Stops(p)
           /\ \A n \in (Len(p) + 1)..Len(whole) : ~C15_Stops(C15_Prefix(whole, n))
           /\ Len(whole) <= 3 => p = whole
           /\ Len(p) >= (IF Len(whole) < 3 THEN Len(whole) ELSE 3)

\* a line of four characters cut to three that still overflows with its "..."
C15_Witness ==
    /\ wt_pc = "done"
    /\ C6_Cut
    /\ wt_max_width = 25
    /\ wt_wrapped[wt_max_lines[1]].text = <<"m", "m", "m", "m">>
    /\ wt_lines[wt_max_lines[1]].text = <<"m", "m", "m">>
    /\ BBoxWidth(<<"m", "m", "m">> \o Ellipsis) > wt_max_width

\* C16 as stated: a call of generate_image leaves the process's shared random
\* generator as it found it: when the call has returned, the generator that
\* the model's choice and sample draw from is in the state it was in at the
\* call.
C16_GeneratorUntouched ==
    gi_pc = "returned" => rng = gi_rng_at_call

\* the items placed so far, line by line and left to right, the line being
\* filled last
C17_Placed ==
    IF gi_pc \in {"pack", "break"} THEN Flatten(gi_lines) \o gi_current_line
    ELSE Flatten(gi_lines)

\* C17: the items of the packed lines, read line by line and left to right,
\* are exactly the first gi_i items of the shuffled sequence in shuffled order
\* (none skipped, duplicated or reordered), every packed line is non-empty,
\* and once the loop was left because 4 lines are closed, the item it stopped
\* at and every later one is in no line and is not drawn.
C17_PackedPrefix ==
    gi_pc \in {"pack", "break", "render", "encode", "returned"} =>
        /\ gi_i <= Len(gi_all_pills)
        /\ C17_Placed = SubSeq(gi_all_pills, 1, gi_i)
        /\ \A n \in 1..Len(gi_lines) : gi_lines[n] # <<>>
        /\ gi_pc = "break" =>
              /\ gi_i < Len(gi_all_pills)
              /\ Len(gi_lines) = max_lines
              /\ gi_current_line = <<>>
        /\ gi_pc \in {"render", "encode", "returned"} =>
              /\ gi_i < Len(gi_all_pills) => Len(gi_lines) = max_lines
              /\ Len(gi_drawn) <= gi_i
              /\ \A k \in 1..Len(gi_drawn) : gi_drawn[k].pill = gi_all_pills[k]

\* a finished call whose packing left out two items, the last of which would
\* have fitted on the fourth line next to what it holds
C17_Witness ==
    /\ gi_pc = "returned"
    /\ Len(gi_lines) = max_lines
    /\ gi_i + 2 = Len(gi_all_pills)
    /\ Len(gi_drawn) = gi_i
    /\ C1_LineWidth(gi_lines[max_lines]) + pill_gap_x
          + PillWidth(gi_all_pills[Len(gi_all_pills)][2]) <= C1_Bound

=============================================================================
